---- MODULE Spec2Model ----
(***************************************************************************)
(* connectors_qa: the QA checks run on Airbyte connectors.                 *)
(*                                                                         *)
(* Text is modelled as a sequence of tokens: a word is one token, every    *)
(* other character (space, '#', '.', a digit) is a token of its own, and   *)
(* a URL scheme such as "http://" is one token.  A TLA+ sequence of        *)
(* tokens stands for the concatenation of its tokens; the string           *)
(* operations of the code (startswith, in, replace, strip, lower) are      *)
(* defined on these sequences as Python defines them on characters.        *)
(***************************************************************************)
EXTENDS Integers, Sequences, FiniteSets, TLC

VARIABLES
    environ,          \* os.environ: the set of environment variable names
    hashSeed,         \* the process's string-hash seed: fixes set iteration order
    repo,             \* technical name -> the connector found on disk
    requested,        \* the --name options given to `run`
    pc,               \* position of `run`: start, loop, aggregate, done
    todo,             \* the (connector, check) pairs product() has still to yield
    check_results,    \* cli.py: check_results
    echoed,           \* what click.echo printed, in order
    bound,            \* Check.connector of every check instance of the registry
    verdict,          \* how `run` ended
    runNo,            \* which invocation of `run` this is (1, 2)
    firstRun,         \* the results and verdict of the first invocation
    last              \* the last Check.run call made on its own: check, outcome

vars == <<environ, hashSeed, repo, requested, pc, todo, check_results, echoed,
          bound, verdict, runNo, firstRun, last>>

-----------------------------------------------------------------------------
(* Sequences and strings *)

Range(s) == {s[i] : i \in 1..Len(s)}

\* s[from..] (1-based), the empty sequence when from is past the end
Drop(s, n) == SubSeq(s, n + 1, Len(s))

Take(s, n) == SubSeq(s, 1, n)

\* str.startswith
StartsWith(s, p) == Len(p) <= Len(s) /\ Take(s, Len(p)) = p

\* str.endswith
EndsWith(s, p) == Len(p) <= Len(s) /\ Drop(s, Len(s) - Len(p)) = p

\* `p in s` for strings: p occurs as a contiguous run of s
Contains(s, p) == \E i \in 0..(Len(s) - Len(p)) : SubSeq(s, i + 1, i + Len(p)) = p

\* str.replace(p, ""): every non-overlapping occurrence of p, left to right, removed
RECURSIVE Remove(_, _)
Remove(s, p) ==
    IF s = <<>> \/ p = <<>> THEN s
    ELSE IF StartsWith(s, p) THEN Remove(Drop(s, Len(p)), p)
    ELSE <<Head(s)>> \o Remove(Tail(s), p)

Whitespace == {" ", "\t", "\n"}

\* str.lstrip()
RECURSIVE LStrip(_)
LStrip(s) == IF s # <<>> /\ Head(s) \in Whitespace THEN LStrip(Tail(s)) ELSE s

\* str.rstrip()
RECURSIVE RStrip(_)
RStrip(s) ==
    IF s # <<>> /\ s[Len(s)] \in Whitespace THEN RStrip(Take(s, Len(s) - 1)) ELSE s

\* str.strip()
Strip(s) == RStrip(LStrip(s))

\* str.lower() of one token
LowerToken(t) ==
    CASE t = "HTTP://" -> "http://"
      [] t = "Example.com" -> "example.com"
      [] t = "Acme" -> "acme"
      [] t = "ACME" -> "acme"
      [] t = "Prerequisites" -> "prerequisites"
      [] t = "Setup" -> "setup"
      [] t = "Supported" -> "supported"
      [] t = "Changelog" -> "changelog"
      [] t = "CHANGELOG" -> "changelog"
      [] t = "MIT" -> "mit"
      [] t = "ELv2" -> "elv2"
      [] OTHER -> t

\* str.upper() of one token
UpperToken(t) ==
    CASE t = "mit" -> "MIT"
      [] t = "Mit" -> "MIT"
      [] t = "ELv2" -> "ELV2"
      [] t = "elv2" -> "ELV2"
      [] t = "apache-2.0" -> "APACHE-2.0"
      [] t = "Apache-2.0" -> "APACHE-2.0"
      [] OTHER -> t

\* str.lower()
Lower(s) == [i \in 1..Len(s) |-> LowerToken(s[i])]

\* Code point of a one-character token, for Python's comparison of strings
CharCode(c) ==
    CASE c = "." -> 46
      [] c = "0" -> 48 [] c = "1" -> 49 [] c = "2" -> 50 [] c = "3" -> 51
      [] c = "4" -> 52 [] c = "5" -> 53 [] c = "6" -> 54 [] c = "7" -> 55
      [] c = "8" -> 56 [] c = "9" -> 57
      [] c = "a" -> 97 [] c = "b" -> 98 [] c = "c" -> 99
      [] OTHER -> 120

\* a < b for Python strings: by code point at the first difference, a proper
\* prefix being smaller
RECURSIVE StrLess(_, _)
StrLess(a, b) ==
    IF b = <<>> THEN FALSE
    ELSE IF a = <<>> THEN TRUE
    ELSE IF Head(a) = Head(b) THEN StrLess(Tail(a), Tail(b))
    ELSE CharCode(Head(a)) < CharCode(Head(b))

\* sorted(S, reverse=True) of a set of distinct strings
RECURSIVE SortedReverse(_)
SortedReverse(S) ==
    IF S = {} THEN <<>>
    ELSE LET m == CHOOSE x \in S : \A y \in S \ {x} : StrLess(y, x)
         IN  <<m>> \o SortedReverse(S \ {m})

\* The concatenation of a sequence of strings
RECURSIVE Flatten(_)
Flatten(ss) == IF ss = <<>> THEN <<>> ELSE Head(ss) \o Flatten(Tail(ss))

\* Optional values: <<>> is None, <<v>> is the value v
None == <<>>
Some(v) == <<v>>
IsNone(o) == o = <<>>
Value(o) == o[1]

-----------------------------------------------------------------------------
(* Semantic versions (semver.Version.parse) *)

Digits == {"0", "1", "2", "3", "4", "5", "6", "7", "8", "9"}

DigitValue(c) == CharCode(c) - 48

\* str.split("."): the components between the dots
RECURSIVE SplitDots(_, _)
SplitDots(s, cur) ==
    IF s = <<>> THEN <<cur>>
    ELSE IF Head(s) = "." THEN <<cur>> \o SplitDots(Tail(s), <<>>)
    ELSE SplitDots(Tail(s), Append(cur, Head(s)))

\* A numeric identifier: digits, without a leading zero
IsNumericIdentifier(c) ==
    /\ c # <<>>
    /\ \A i \in 1..Len(c) : c[i] \in Digits
    /\ (Len(c) = 1 \/ c[1] # "0")

RECURSIVE NumberOf(_, _)
NumberOf(c, acc) ==
    IF c = <<>> THEN acc ELSE NumberOf(Tail(c), 10 * acc + DigitValue(Head(c)))

\* Whether semver.Version.parse accepts the string (major.minor.patch; the model's
\* strings carry no prerelease or build part); it raises ValueError otherwise
SemverValid(s) ==
    LET p == SplitDots(s, <<>>)
    IN  Len(p) = 3 /\ \A i \in 1..3 : IsNumericIdentifier(p[i])

\* semver.Version.parse of a valid string: <<major, minor, patch>>
SemverParse(s) ==
    LET p == SplitDots(s, <<>>) IN [i \in 1..3 |-> NumberOf(p[i], 0)]

-----------------------------------------------------------------------------
(* models.py *)

JAVA == "java"
LOW_CODE == "low-code"
PYTHON == "python"

ALL_LANGUAGES == {JAVA, LOW_CODE, PYTHON}

PASSED == "Passed"
FAILED == "Failed"
SKIPPED == "Skipped"

\* What a call returns or raises.  kind "result": a CheckResult (its check is the
\* instance called); kind "none": the call returned None; kind "raise": the call
\* raised `error`.
CheckResult(status, message) ==
    [kind |-> "result", status |-> status, message |-> message, error |-> ""]

ReturnedNone == [kind |-> "none", status |-> "", message |-> <<>>, error |-> ""]

Raised(error) == [kind |-> "raise", status |-> "", message |-> <<>>, error |-> error]

\* Check.skip
skip(reason) == CheckResult(SKIPPED, reason)

\* Check.create_check_result
create_check_result(passed, message) ==
    CheckResult(IF passed THEN PASSED ELSE FAILED, message)

-----------------------------------------------------------------------------
(* __init__.py: the registry *)

ENABLED_CHECKS ==
    << "ValidateMetadata",
       "CheckDocumentationExists",
       "CheckDocumentationStructure",
       "CheckChangelogEntry",
       "CheckMigrationGuide",
       "CheckConnectorIconIsAvailable",
       "CheckConnectorUsesHTTPSOnly",
       "CheckConnectorUsesPoetry",
       "CheckConnectorUsesPythonBaseImage",
       "CheckPublishToPyPiIsEnabled",
       "CheckConnectorLicense",
       "CheckVersionFollowsSemver" >>

Checks == Range(ENABLED_CHECKS)

\* Check.applies_to_connector_languages and its overrides
applies_to_connector_languages(check) ==
    IF check \in {"CheckConnectorUsesPoetry", "CheckConnectorUsesPythonBaseImage",
                  "CheckPublishToPyPiIsEnabled"}
    THEN {PYTHON, LOW_CODE}
    ELSE ALL_LANGUAGES

-----------------------------------------------------------------------------
(* The connector a check reads (connector_ops.utils.Connector), as the record of
   what the checks observe of it:
     technical_name, language, version
     metadata              None or the parsed metadata, each key None when absent
     metadata_file         whether metadata.yaml exists in the code directory
     metadata_valid        the verdict of the metadata validator on the files
     documentation, migration_guide
                           [path: "none" (no path), "missing" (no such file) or
                            "file", lines: the file's lines]
     icon                  "none", "missing" or "file"
     pyproject             [exists, parses, license, version] of pyproject.toml
     poetry_lock, setup_py, dockerfile   whether the file exists
     files                 what rglob("*") yields under the code directory       *)

\* bool(connector.metadata): a dict is true when it has a key
MetadataTruthy(connector) ==
    /\ ~IsNone(connector.metadata)
    /\ LET m == Value(connector.metadata)
       IN  \/ ~IsNone(m.name) \/ ~IsNone(m.license) \/ ~IsNone(m.dockerImageTag)
           \/ m.breakingChanges # {} \/ ~IsNone(m.baseImage) \/ m.pypiEnabled

\* path is not None and path.exists()
Exists(f) == f.path = "file"

-----------------------------------------------------------------------------
(* checks.py *)

\* CheckMigrationGuide._run, lines 55-60: the versions of the guide's
\* "## Upgrading to " headings, in the order of the lines
expected_version_header_start == <<"#", "#", " ", "Upgrading", " ", "to", " ">>

RECURSIVE ordered_heading_versions(_)
ordered_heading_versions(lines) ==
    IF lines = <<>> THEN <<>>
    ELSE LET stripped_line == Strip(Head(lines))
         IN  (IF StartsWith(stripped_line, expected_version_header_start)
              THEN <<Remove(stripped_line, expected_version_header_start)>>
              ELSE <<>>)
             \o ordered_heading_versions(Tail(lines))

\* connector.name_from_metadata
name_from_metadata(connector) ==
    IF IsNone(connector.metadata) \/ IsNone(Value(connector.metadata).name)
    THEN <<"None">>
    ELSE Value(Value(connector.metadata).name)

\* get(connector.metadata, "releases.breakingChanges"): the versions that are its keys
breaking_changes(connector) ==
    IF IsNone(connector.metadata) THEN {} ELSE Value(connector.metadata).breakingChanges

\* sorted(breaking_changes.keys(), reverse=True)
ordered_breaking_changes(connector) == SortedReverse(breaking_changes(connector))

CheckMigrationGuide_run(connector) ==
    IF breaking_changes(connector) = {}
    THEN create_check_result(TRUE, <<"No breaking changes found. A migration guide is not required">>)
    ELSE IF ~Exists(connector.migration_guide)
    THEN create_check_result(FALSE, <<"Migration guide file is missing for">> \o connector.technical_name)
    ELSE LET content == connector.migration_guide.lines
             expected_title == <<"#", " ">> \o name_from_metadata(connector)
                                 \o <<" ", "Migration", " ", "Guide">>
         IN  IF content = <<>>
             THEN Raised("IndexError")
             ELSE IF content[1] # expected_title
             THEN create_check_result(FALSE,
                      <<"Migration guide file does not start with the correct header. Expected">>
                      \o expected_title \o <<"got">> \o content[1])
             ELSE IF ordered_breaking_changes(connector) # ordered_heading_versions(content)
             THEN create_check_result(FALSE,
                      <<"Migration guide file has incorrect version headings. Expected headings:">>
                      \o Flatten(ordered_breaking_changes(connector)))
             ELSE create_check_result(TRUE, <<"The migration guide is correctly templated">>)

CheckDocumentationExists_run(connector) ==
    IF ~Exists(connector.documentation)
    THEN create_check_result(FALSE, <<"User facing documentation file is missing. Please create it">>)
    ELSE create_check_result(TRUE, <<"User facing documentation file exists">>)

expected_sections ==
    << <<"#", "#", " ", "Prerequisites">>,
       <<"#", "#", " ", "Setup", " ", "guide">>,
       <<"#", "#", " ", "Supported", " ", "sync", " ", "modes">>,
       <<"#", "#", " ", "Supported", " ", "streams">>,
       <<"#", "#", " ", "Changelog">> >>

main_header_error == <<"The connector name is not used as the main header in the documentation">>

\* CheckDocumentationStructure._run, lines 115-117
RECURSIVE section_errors(_, _)
section_errors(sections, doc_lines) ==
    IF sections = <<>> THEN <<>>
    ELSE (IF Lower(Head(sections)) \notin Range(doc_lines)
          THEN <<"Connector documentation is missing a section:">>
               \o Strip(Remove(Head(sections), <<"#">>))
          ELSE <<>>)
         \o section_errors(Tail(sections), doc_lines)

CheckDocumentationStructure_run(connector) ==
    IF connector.documentation.path = "none" THEN Raised("TypeError")
    ELSE IF connector.documentation.path = "missing" THEN Raised("FileNotFoundError")
    ELSE LET doc_lines == [i \in 1..Len(connector.documentation.lines) |->
                              Lower(connector.documentation.lines[i])]
         IN  IF doc_lines = <<>> THEN Raised("IndexError")
             ELSE IF MetadataTruthy(connector) /\ IsNone(Value(connector.metadata).name)
             THEN Raised("KeyError")
             ELSE LET e1 == IF ~StartsWith(doc_lines[1], <<"#", " ">>)
                            THEN main_header_error ELSE <<>>
                      e2 == IF MetadataTruthy(connector)
                            THEN IF Strip(doc_lines[1]) #
                                    <<"#", " ">> \o Lower(Value(Value(connector.metadata).name))
                                 THEN main_header_error ELSE <<>>
                            ELSE IF ~StartsWith(doc_lines[1], <<"#", " ">>)
                                 THEN main_header_error ELSE <<>>
                      errors == e1 \o e2 \o section_errors(expected_sections, doc_lines)
                  IN  IF errors # <<>>
                      THEN create_check_result(FALSE,
                               <<"Connector documentation does not follow the guidelines.">> \o errors)
                      ELSE create_check_result(TRUE, <<"Documentation guidelines are followed">>)

\* CheckChangelogEntry._run, lines 140-146: <<after_changelog, entry_found>> after
\* the loop over the lines
RECURSIVE changelog_scan(_, _, _, _)
changelog_scan(lines, version, after_changelog, entry_found) ==
    IF lines = <<>> THEN <<after_changelog, entry_found>>
    ELSE LET after == after_changelog
                      \/ Contains(Lower(Head(lines)), <<"#", " ", "changelog">>)
         IN  changelog_scan(Tail(lines), version, after,
                            entry_found \/ (after /\ Contains(Head(lines), version)))

CheckChangelogEntry_run(connector) ==
    IF ~Exists(connector.documentation)
    THEN create_check_result(FALSE, <<"User facing documentation file is missing. Please create it.">>)
    ELSE IF ~changelog_scan(connector.documentation.lines, connector.version, FALSE, FALSE)[2]
    THEN create_check_result(FALSE,
             <<"Changelog entry is missing in the documentation for version">> \o connector.version)
    ELSE create_check_result(TRUE, <<"Changelog entry found">>)

CheckConnectorIconIsAvailable_run(connector) ==
    IF connector.icon # "file"
    THEN create_check_result(FALSE, <<"Icon file is missing">>)
    ELSE create_check_result(TRUE, <<"Icon file exists">>)

-----------------------------------------------------------------------------
(* CheckConnectorUsesHTTPSOnly.  A path under the code directory is a record
     path      the path as printed (str(path))
     dirs      the names of the directories on the path, the connector's own and
               those above it included
     name      the file name, as tokens: <<"main", ".py">>
     is_file   whether the path is a regular file
     lines     its lines
     readable  how many of its lines decode before a UnicodeDecodeError
               (Len(lines): the file decodes)                                    *)

ignore_comment == <<"#", " ", "ignore-https-check">>

ignored_directories_for_https_checks ==
    {".venv", "tests", "unit_tests", "integration_tests", "build", "source-file",
     ".pytest_cache", "acceptance_tests_logs", ".hypothesis", ".ruff_cache"}

ignored_url_prefixes ==
    << <<"http://", "json-schema.org">>, <<"http://", "localhost">> >>

\* path.parts
PathParts(f) == Range(f.dirs) \cup (IF Len(f.name) = 1 THEN {f.name[1]} ELSE {})

\* path.match(pattern) for one of ignored_file_name_pattern_for_https_checks
MatchesIgnoredPattern(f) ==
    \/ EndsWith(f.name, <<"Test", ".java">>)
    \/ \E ext \in {".jar", ".pyc", ".gz", ".svg"} : EndsWith(f.name, <<ext>>)
    \/ f.name = <<"expected_records", ".jsonl">>
    \/ f.name = <<"expected_records", ".json">>

\* _read_all_files_in_directory: the (path, line) pairs it yields, in order
RECURSIVE read_all_files_in_directory(_)
read_all_files_in_directory(files) ==
    IF files = <<>> THEN <<>>
    ELSE LET f == Head(files)
             ignore_directory == PathParts(f) \cap ignored_directories_for_https_checks # {}
             ignore == ignore_directory \/ MatchesIgnoredPattern(f)
         IN  (IF f.is_file /\ ~ignore
              THEN [i \in 1..f.readable |-> <<f, f.lines[i]>>]
              ELSE <<>>)
             \o read_all_files_in_directory(Tail(files))

\* file_path.suffix
PathSuffix(f) ==
    IF Len(f.name) >= 2 /\ f.name[Len(f.name)] \in
          {".py", ".yml", ".yaml", ".java", ".md", ".json", ".jsonl", ".txt",
           ".jar", ".pyc", ".gz", ".svg"}
    THEN f.name[Len(f.name)] ELSE ""

\* _line_is_comment testing the line as it is, blanks included
line_is_comment_NoLStrip(line, file_path) ==
    \/ PathSuffix(file_path) \in {".py", ".yml", ".yaml"} /\ StartsWith(line, <<"#">>)
    \/ PathSuffix(file_path) = ".java" /\ StartsWith(line, <<"/", "/">>)
    \/ PathSuffix(file_path) = ".md" /\ StartsWith(line, <<"<!--">>)

\* CheckConnectorUsesHTTPSOnly._line_is_comment
line_is_comment(line, file_path) ==
    LET suffix == PathSuffix(file_path)
        denote_comment ==
            CASE suffix \in {".py", ".yml", ".yaml"} -> <<"#">>
              [] suffix = ".java" -> <<"/", "/">>
              [] suffix = ".md" -> <<"<!--">>
              [] OTHER -> <<>>
    IN  IF denote_comment = <<>> THEN FALSE
        ELSE StartsWith(LStrip(line), denote_comment)

\* lines 248-249: every ignored prefix removed from the line, one after the other
RECURSIVE strip_ignored_prefixes(_, _)
strip_ignored_prefixes(line, prefixes) ==
    IF prefixes = <<>> THEN line
    ELSE strip_ignored_prefixes(Remove(line, Head(prefixes)), Tail(prefixes))

\* Iteration over a set of strings: an order the interpreter's hash seed decides.
\* `universe` lists the strings there are; seed 0 yields those of S in that order,
\* any other seed in the reverse order.
Reverse(s) == [i \in 1..Len(s) |-> s[Len(s) + 1 - i]]

IterateSet(S, universe, seed) ==
    LET Member(x) == x \in S
        base == SelectSeq(universe, Member)
    IN  IF seed = 0 THEN base ELSE Reverse(base)

\* lines 243-251 for one line: whether the line puts its file into
\* files_with_http_url (ignored_url_prefixes is a set: the seed orders it)
line_has_http_url(line0, filename, seed) ==
    LET line == Lower(line0)
        prefixes == IF seed = 0 THEN ignored_url_prefixes ELSE Reverse(ignored_url_prefixes)
    IN  /\ ~line_is_comment(line, filename)
        /\ ~Contains(line, ignore_comment)
        /\ Contains(strip_ignored_prefixes(line, prefixes), <<"http://">>)

\* lines 238-251: the set files_with_http_url after the loop
files_with_http_url(connector, seed) ==
    LET pairs == read_all_files_in_directory(connector.files)
    IN  {pairs[i][1].path :
            i \in {j \in 1..Len(pairs) : line_has_http_url(pairs[j][2], pairs[j][1], seed)}}

\* Every path string of the model, in a fixed order
PathOrder == <<"main.py", "spec.json", "README.md", "Client.java", "config.yaml",
               "unit_tests/test_main.py", "ClientTest.java", "notes.txt", "src">>

CheckConnectorUsesHTTPSOnly_run(connector, seed) ==
    LET found == files_with_http_url(connector, seed)
    IN  IF found # {}
        THEN create_check_result(FALSE,
                 <<"The following files have http:// URLs:">> \o IterateSet(found, PathOrder, seed))
        ELSE create_check_result(TRUE, <<"No file with http:// URLs found">>)

CheckConnectorUsesPoetry_run(connector) ==
    IF ~connector.pyproject.exists
    THEN create_check_result(FALSE, <<"pyproject.toml file is missing">>)
    ELSE IF ~connector.poetry_lock
    THEN create_check_result(FALSE, <<"poetry.lock file is missing">>)
    ELSE IF connector.setup_py
    THEN create_check_result(FALSE,
             <<"setup.py file exists. Please remove it and use pyproject.toml instead">>)
    ELSE create_check_result(TRUE, <<"Poetry is used for dependency management">>)

CheckConnectorUsesPythonBaseImage_run(connector) ==
    IF connector.dockerfile
    THEN create_check_result(FALSE, <<"Dockerfile file exists. Please remove it">>)
    ELSE IF ~MetadataTruthy(connector)
    THEN create_check_result(FALSE, <<"metadata.yaml file is missing">>)
    ELSE IF IsNone(Value(connector.metadata).baseImage) \/ Value(Value(connector.metadata).baseImage) = ""
    THEN create_check_result(FALSE,
             <<"connectorBuildOptions.baseImage key is missing in metadata.yaml file">>)
    ELSE create_check_result(TRUE, <<"Connector uses the Python connector base image">>)

required_env_vars == {"DOCKERHUB_USERNAME", "DOCKERHUB_PASSWORD"}

\* ValidateMetadata._run looking for metadata.yaml before it looks at the environment
ValidateMetadata_run_FileFirst(connector, env) ==
    IF ~connector.metadata_file
    THEN create_check_result(FALSE, <<"metadata.yaml file is missing">>)
    ELSE IF ~(required_env_vars \subseteq env)
    THEN Raised("ValueError")
    ELSE IF ~Exists(connector.documentation)
    THEN create_check_result(FALSE, <<"User facing documentation file is missing. Please create it">>)
    ELSE IF connector.metadata_valid
    THEN create_check_result(TRUE, <<"Metadata file is valid">>)
    ELSE create_check_result(FALSE, <<"Metadata file is invalid:", "validator output">>)

ValidateMetadata_run(connector, env) ==
    IF ~(required_env_vars \subseteq env)
    THEN Raised("ValueError")
    ELSE IF ~connector.metadata_file
    THEN create_check_result(FALSE, <<"metadata.yaml file is missing">>)
    ELSE IF ~Exists(connector.documentation)
    THEN create_check_result(FALSE, <<"User facing documentation file is missing. Please create it">>)
    ELSE IF connector.metadata_valid
    THEN create_check_result(TRUE, <<"Metadata file is valid">>)
    ELSE create_check_result(FALSE, <<"Metadata file is invalid:", "validator output">>)

CheckPublishToPyPiIsEnabled_run(connector) ==
    IF ~MetadataTruthy(connector)
    THEN create_check_result(FALSE, <<"metadata.yaml file is missing">>)
    ELSE IF ~Value(connector.metadata).pypiEnabled
    THEN create_check_result(FALSE,
             <<"PyPi publishing is not enabled. Please enable it in the metadata file">>)
    ELSE create_check_result(TRUE, <<"PyPi publishing is enabled">>)

\* CheckConnectorLicense._run comparing the manifest's license with the metadata's
\* without regard to case
CheckConnectorLicense_run_CaseInsensitiveMatch(connector) ==
    IF ~MetadataTruthy(connector)
    THEN create_check_result(FALSE, <<"metadata.yaml file is missing">>)
    ELSE LET metadata_license == Value(connector.metadata).license
         IN  IF IsNone(metadata_license) THEN Raised("AttributeError")
             ELSE IF UpperToken(Value(metadata_license)) \notin {"MIT", "ELV2"}
             THEN create_check_result(FALSE,
                      <<"Connector is licensed under", Value(metadata_license),
                        "Please use MIT or Elv2 license">>)
             ELSE IF connector.language \in {LOW_CODE, PYTHON} /\ connector.pyproject.exists
             THEN IF ~connector.pyproject.parses THEN Raised("TomlDecodeError")
                  ELSE LET poetry_license == connector.pyproject.license
                       IN  IF IsNone(poetry_license) \/ Value(poetry_license) = ""
                           THEN create_check_result(FALSE,
                                    <<"Connector is missing license in pyproject.toml. Please add it">>)
                           ELSE IF UpperToken(Value(poetry_license)) # UpperToken(Value(metadata_license))
                           THEN create_check_result(FALSE,
                                    <<"Connector is licensed under", Value(poetry_license),
                                      "in pyproject.toml, but licensed under",
                                      Value(metadata_license), "in metadata.yaml">>)
                           ELSE create_check_result(TRUE,
                                    <<"Connector is licensed under MIT or ELv2 license">>)
             ELSE create_check_result(TRUE, <<"Connector is licensed under MIT or ELv2 license">>)

CheckConnectorLicense_run(connector) ==
    IF ~MetadataTruthy(connector)
    THEN create_check_result(FALSE, <<"metadata.yaml file is missing">>)
    ELSE LET metadata_license == Value(connector.metadata).license
         IN  IF IsNone(metadata_license) THEN Raised("AttributeError")
             ELSE IF UpperToken(Value(metadata_license)) \notin {"MIT", "ELV2"}
             THEN create_check_result(FALSE,
                      <<"Connector is licensed under", Value(metadata_license),
                        "Please use MIT or Elv2 license">>)
             ELSE IF connector.language \in {LOW_CODE, PYTHON} /\ connector.pyproject.exists
             THEN IF ~connector.pyproject.parses THEN Raised("TomlDecodeError")
                  ELSE LET poetry_license == connector.pyproject.license
                       IN  IF IsNone(poetry_license) \/ Value(poetry_license) = ""
                           THEN create_check_result(FALSE,
                                    <<"Connector is missing license in pyproject.toml. Please add it">>)
                           ELSE IF Value(poetry_license) # Value(metadata_license)
                           THEN create_check_result(FALSE,
                                    <<"Connector is licensed under", Value(poetry_license),
                                      "in pyproject.toml, but licensed under",
                                      Value(metadata_license), "in metadata.yaml">>)
                           ELSE create_check_result(TRUE,
                                    <<"Connector is licensed under MIT or ELv2 license">>)
             ELSE create_check_result(TRUE, <<"Connector is licensed under MIT or ELv2 license">>)

CheckVersionFollowsSemver_run(connector) ==
    IF IsNone(connector.metadata)
    THEN create_check_result(FALSE, <<"Connector version is missing in metadata.yaml">>)
    ELSE LET tag == Value(connector.metadata).dockerImageTag
             not_semver == create_check_result(FALSE,
                               <<"Connector version does not follow Semantic Versioning:">>
                               \o (IF IsNone(tag) THEN <<>> ELSE Value(tag)))
         IN  IF IsNone(tag)
             THEN create_check_result(FALSE, <<"dockerImageTag is missing in metadata.yaml">>)
             ELSE IF ~SemverValid(Value(tag)) THEN not_semver
             ELSE IF connector.language \in {LOW_CODE, PYTHON} /\ connector.pyproject.exists
             THEN IF ~connector.pyproject.parses THEN not_semver
                  ELSE IF IsNone(connector.pyproject.version) THEN Raised("KeyError")
                  ELSE IF ~SemverValid(Value(connector.pyproject.version)) THEN not_semver
                  ELSE IF SemverParse(Value(tag)) # SemverParse(Value(connector.pyproject.version))
                  THEN create_check_result(FALSE,
                           <<"Connector version in metadata.yaml is">> \o Value(tag)
                           \o <<"but version in pyproject.toml is">>
                           \o Value(connector.pyproject.version))
                  ELSE ReturnedNone
             ELSE ReturnedNone

\* Check._run of each check of the registry
run_logic(check, connector, env, seed) ==
    CASE check = "ValidateMetadata" -> ValidateMetadata_run(connector, env)
      [] check = "CheckDocumentationExists" -> CheckDocumentationExists_run(connector)
      [] check = "CheckDocumentationStructure" -> CheckDocumentationStructure_run(connector)
      [] check = "CheckChangelogEntry" -> CheckChangelogEntry_run(connector)
      [] check = "CheckMigrationGuide" -> CheckMigrationGuide_run(connector)
      [] check = "CheckConnectorIconIsAvailable" -> CheckConnectorIconIsAvailable_run(connector)
      [] check = "CheckConnectorUsesHTTPSOnly" -> CheckConnectorUsesHTTPSOnly_run(connector, seed)
      [] check = "CheckConnectorUsesPoetry" -> CheckConnectorUsesPoetry_run(connector)
      [] check = "CheckConnectorUsesPythonBaseImage" -> CheckConnectorUsesPythonBaseImage_run(connector)
      [] check = "CheckPublishToPyPiIsEnabled" -> CheckPublishToPyPiIsEnabled_run(connector)
      [] check = "CheckConnectorLicense" -> CheckConnectorLicense_run(connector)
      [] check = "CheckVersionFollowsSemver" -> CheckVersionFollowsSemver_run(connector)

\* Check.run without the test of the connector's language
Check_run_NoLanguageTest(check, connector, env, seed) ==
    [outcome |-> run_logic(check, connector, env, seed), ran_logic |-> TRUE]

\* Check.run, lines 123-127, after `self.connector = connector`: the outcome, and
\* whether _run was called
Check_run(check, connector, env, seed) ==
    IF connector.language \notin applies_to_connector_languages(check)
    THEN [outcome |-> skip(<<"Check does not apply to connectors of language", connector.language>>),
          ran_logic |-> FALSE]
    ELSE [outcome |-> run_logic(check, connector, env, seed), ran_logic |-> TRUE]

-----------------------------------------------------------------------------
(* utils.py *)

strict_encrypt_suffixes == << <<"-strict-encrypt">>, <<"-secure">> >>

\* remove_strict_encrypt_suffix, lines 17-21
RECURSIVE remove_suffix_from(_, _)
remove_suffix_from(connector_technical_name, suffixes) ==
    IF suffixes = <<>> THEN connector_technical_name
    ELSE IF EndsWith(connector_technical_name, Head(suffixes))
    THEN Remove(connector_technical_name, Head(suffixes))
    ELSE remove_suffix_from(connector_technical_name, Tail(suffixes))

remove_strict_encrypt_suffix(connector_technical_name) ==
    remove_suffix_from(connector_technical_name, strict_encrypt_suffixes)

-----------------------------------------------------------------------------
(* The connectors of the model *)

V(a, b, c) == <<a, ".", b, ".", c>>

Line(word) == <<word>>

Heading(level, words) == level \o <<" ">> \o words

GoodDocumentation ==
    [path |-> "file",
     lines |-> << <<"#", " ", "Acme">>,
                  <<"#", "#", " ", "Prerequisites">>,
                  <<"#", "#", " ", "Setup", " ", "guide">>,
                  <<"#", "#", " ", "Supported", " ", "sync", " ", "modes">>,
                  <<"#", "#", " ", "Supported", " ", "streams">>,
                  <<"#", "#", " ", "Changelog">>,
                  <<"|", " ">> \o V("1", "2", "3") \o <<" ", "|">> >>]

GoodMetadata ==
    [name |-> Some(<<"Acme">>),
     license |-> Some("MIT"),
     dockerImageTag |-> Some(V("1", "2", "3")),
     breakingChanges |-> {},
     baseImage |-> Some("docker.io/airbyte/python-connector-base"),
     pypiEnabled |-> TRUE]

EmptyMetadata ==
    [name |-> None, license |-> None, dockerImageTag |-> None,
     breakingChanges |-> {}, baseImage |-> None, pypiEnabled |-> FALSE]

GoodPyproject ==
    [exists |-> TRUE, parses |-> TRUE, license |-> Some("MIT"),
     version |-> Some(V("1", "2", "3"))]

File(path, dirs, name, lines) ==
    [path |-> path, dirs |-> dirs, name |-> name, is_file |-> TRUE,
     lines |-> lines, readable |-> Len(lines)]

CleanLine == <<"url", " ", "=", " ", "https://", "example.com">>

HttpLine == <<"url", " ", "=", " ", "http://", "example.com">>

CodeDirectory == <<"airbyte-integrations", "connectors", "source">>

MainPy(lines) == File("main.py", CodeDirectory, <<"main", ".py">>, lines)

\* A connector every check of which finds nothing to report
GoodConnector(technical_name, language) ==
    [technical_name |-> technical_name,
     language |-> language,
     version |-> V("1", "2", "3"),
     metadata |-> Some(GoodMetadata),
     metadata_file |-> TRUE,
     metadata_valid |-> TRUE,
     documentation |-> GoodDocumentation,
     migration_guide |-> [path |-> "missing", lines |-> <<>>],
     icon |-> "file",
     pyproject |-> IF language = JAVA THEN [GoodPyproject EXCEPT !.exists = FALSE]
                   ELSE GoodPyproject,
     poetry_lock |-> language # JAVA,
     setup_py |-> FALSE,
     dockerfile |-> FALSE,
     files |-> << MainPy(<<CleanLine>>) >>]

MetadataVariants ==
    {None, Some(EmptyMetadata)}
    \cup {Some([GoodMetadata EXCEPT !.name = n]) : n \in {None, Some(<<"ACME">>), Some(<<"Other">>)}}
    \cup {Some([GoodMetadata EXCEPT !.license = l]) :
             l \in {None, Some("mit"), Some("ELv2"), Some("Apache-2.0")}}
    \cup {Some([GoodMetadata EXCEPT !.dockerImageTag = t]) :
             t \in {None, Some(<<"a", "b", "c">>), Some(V("1", "2", "4")), Some(<<"1", ".", "2">>)}}
    \cup {Some([GoodMetadata EXCEPT !.baseImage = None]),
          Some([GoodMetadata EXCEPT !.pypiEnabled = FALSE]),
          Some([GoodMetadata EXCEPT !.breakingChanges = {V("2", "0", "0")}])}

DocumentationVariants ==
    {[path |-> "none", lines |-> <<>>],
     [path |-> "missing", lines |-> <<>>],
     [path |-> "file", lines |-> <<>>],
     [GoodDocumentation EXCEPT !.lines[1] = <<"Acme">>],
     [GoodDocumentation EXCEPT !.lines[1] = <<"#", " ", "Other">>],
     [GoodDocumentation EXCEPT !.lines[2] = <<"text">>],
     [GoodDocumentation EXCEPT !.lines[6] = <<"text">>],
     [GoodDocumentation EXCEPT !.lines[7] = <<"text">>]}

MigrationGuideTitle == <<"#", " ", "Acme", " ", "Migration", " ", "Guide">>

UpgradingTo(version) == expected_version_header_start \o version

MigrationGuideVariants ==
    {[path |-> "none", lines |-> <<>>],
     [path |-> "file", lines |-> <<>>],
     [path |-> "file", lines |-> <<MigrationGuideTitle, UpgradingTo(V("2", "0", "0"))>>],
     [path |-> "file", lines |-> << <<"text">>, UpgradingTo(V("2", "0", "0"))>>]}

PyprojectVariants ==
    {[GoodPyproject EXCEPT !.exists = FALSE],
     [GoodPyproject EXCEPT !.parses = FALSE],
     [GoodPyproject EXCEPT !.license = None],
     [GoodPyproject EXCEPT !.license = Some("Apache-2.0")],
     [GoodPyproject EXCEPT !.version = None],
     [GoodPyproject EXCEPT !.version = Some(<<"a", "b", "c">>)],
     [GoodPyproject EXCEPT !.version = Some(V("1", "2", "4"))]}

TwoHttpFiles ==
    << MainPy(<<HttpLine>>), File("spec.json", CodeDirectory, <<"spec", ".json">>, <<HttpLine>>) >>

FilesVariants ==
    {<<>>,
     << MainPy(<<HttpLine>>) >>,
     TwoHttpFiles,
     << MainPy(<<<<"#", " ", "http://", "example.com">>>>) >>}

\* The connectors that differ from a good one in one respect
VariantsOf(good) ==
    {good}
    \cup {[good EXCEPT !.metadata = m] : m \in MetadataVariants}
    \cup {[good EXCEPT !.documentation = d] : d \in DocumentationVariants}
    \cup {[good EXCEPT !.metadata = Some([GoodMetadata EXCEPT !.breakingChanges = {V("2", "0", "0")}]),
                       !.migration_guide = g] : g \in MigrationGuideVariants}
    \cup {[good EXCEPT !.pyproject = p] : p \in PyprojectVariants}
    \cup {[good EXCEPT !.files = f] : f \in FilesVariants}
    \cup {[good EXCEPT !.icon = i] : i \in {"none", "missing"}}
    \cup {[good EXCEPT !.metadata_file = FALSE], [good EXCEPT !.metadata_valid = FALSE],
          [good EXCEPT !.poetry_lock = ~good.poetry_lock], [good EXCEPT !.setup_py = TRUE],
          [good EXCEPT !.dockerfile = TRUE]}

SourceA == <<"source-a">>
SourceB == <<"source-b">>

ConnectorUniverse ==
    UNION {VariantsOf(GoodConnector(SourceA, language)) : language \in ALL_LANGUAGES}

Seeds == {0, 1}

Environments == SUBSET required_env_vars

-----------------------------------------------------------------------------
(* One call of Check.run on a check of a fresh registry *)

NoCall ==
    [check |-> "", connector |-> <<>>, outcome |-> ReturnedNone, ran_logic |-> FALSE]

NoFirstRun == [results |-> {}, verdict |-> ""]

\* The variables of `run`, while no `run` is in progress
RunIdle ==
    /\ pc = "idle"
    /\ todo = <<>>
    /\ check_results = <<>>
    /\ echoed = <<>>
    /\ verdict = ""
    /\ runNo = 1
    /\ firstRun = NoFirstRun

InitCall(universe) ==
    /\ environ \in Environments
    /\ hashSeed \in Seeds
    /\ \E connector \in universe : repo = [n \in {connector.technical_name} |-> connector]
    /\ requested = <<SourceA>>
    /\ bound = [check \in Checks |-> None]
    /\ last = NoCall
    /\ RunIdle

\* check.run(connector), models.py lines 123-127
CallCheck(check) ==
    /\ pc = "idle"
    /\ last = NoCall
    /\ \E name \in DOMAIN repo :
          LET r == Check_run(check, repo[name], environ, hashSeed)
          IN  /\ bound' = [bound EXCEPT ![check] = Some(name)]
              /\ last' = [check |-> check, connector |-> name,
                          outcome |-> r.outcome, ran_logic |-> r.ran_logic]
    /\ UNCHANGED <<environ, hashSeed, repo, requested, pc, todo, check_results,
                   echoed, verdict, runNo, firstRun>>

InitCheck == InitCall(ConnectorUniverse)

NextCheck == \E check \in Checks : CallCheck(check)

SpecCheck == InitCheck /\ [][NextCheck]_vars

\* The connector and the check of the call made
Called == last.check # ""

CalledConnector == repo[last.connector]

Applicable == CalledConnector.language \in applies_to_connector_languages(last.check)

-----------------------------------------------------------------------------
\* C1: Check.run returns a result with status SKIPPED if and only if the
\* connector's language is not in the check's applies_to_connector_languages; then
\* _run was not called, and the result is the same whatever the connector holds:
\* it is the skip result naming the language.
C1_SkippedIffNotApplicable ==
    Called =>
        /\ (last.outcome.kind = "result" /\ last.outcome.status = SKIPPED) <=> ~Applicable
        /\ ~Applicable =>
              /\ ~last.ran_logic
              /\ last.outcome = CheckResult(SKIPPED,
                     <<"Check does not apply to connectors of language", CalledConnector.language>>)
        /\ Applicable => last.ran_logic

\* C1 witness: a Java connector with a setup.py, on which the Poetry check (for
\* Python and low-code connectors) was called and skipped
C1_Witness ==
    /\ last.check = "CheckConnectorUsesPoetry"
    /\ CalledConnector.language = JAVA
    /\ CalledConnector.setup_py
    /\ last.outcome.status = SKIPPED

\* C2: for a connector whose language the check applies to, a call that does not
\* raise returns a CheckResult whose status is PASSED or FAILED and whose message
\* is not empty.
C2_ReturnsPassedOrFailed ==
    (Called /\ Applicable /\ last.outcome.kind # "raise") =>
        /\ last.outcome.kind = "result"
        /\ last.outcome.status \in {PASSED, FAILED}
        /\ last.outcome.message # <<>>

\* The connector states C5 names, each with the check that meets it: the
\* documentation file absent or empty, the migration guide empty, metadata without
\* a license, a manifest without a version, a version that is no semantic version
CannotAssess(check, connector) ==
    \/ /\ check = "CheckDocumentationStructure"
       /\ (~Exists(connector.documentation) \/ connector.documentation.lines = <<>>)
    \/ /\ check = "CheckMigrationGuide"
       /\ breaking_changes(connector) # {}
       /\ Exists(connector.migration_guide)
       /\ connector.migration_guide.lines = <<>>
    \/ /\ check = "CheckConnectorLicense"
       /\ MetadataTruthy(connector)
       /\ IsNone(Value(connector.metadata).license)
    \/ /\ check = "CheckVersionFollowsSemver"
       /\ ~IsNone(connector.metadata)
       /\ ~IsNone(Value(connector.metadata).dockerImageTag)
       /\ \/ ~SemverValid(Value(Value(connector.metadata).dockerImageTag))
          \/ /\ connector.language \in {LOW_CODE, PYTHON}
             /\ connector.pyproject.exists
             /\ connector.pyproject.parses
             /\ IsNone(connector.pyproject.version)

\* C5: on a connector state the check cannot assess, Check.run returns a FAILED
\* result with a message, and no error propagates.
C5_ChecksAreTotal ==
    (Called /\ CannotAssess(last.check, CalledConnector)) =>
        /\ last.outcome.kind = "result"
        /\ last.outcome.status = FAILED
        /\ last.outcome.message # <<>>

-----------------------------------------------------------------------------
(* cli.py: run *)

\* Every technical name of the model, in a fixed order
NameOrder ==
    <<SourceA, SourceB,
      SourceA \o <<"-secure">>,
      SourceA \o <<"-strict-encrypt">>,
      SourceB \o <<"-secure">>,
      SourceA \o <<"-secure", "-strict-encrypt">>,
      SourceA \o <<"-strict-encrypt", "-secure">>,
      SourceA \o <<"-secure", "-secure">>,
      <<"source", "-db">>,
      <<"source", "-secure", "-db">>,
      <<"source", "-secure", "-db", "-secure">>,
      <<"source", "-strict-encrypt", "-db">>,
      <<"source", "-strict-encrypt", "-db", "-strict-encrypt">> >>

\* product(connectors, ENABLED_CHECKS): connector-major, the connectors in the
\* set's iteration order
RECURSIVE product(_, _)
product(names, checks) ==
    IF names = <<>> THEN <<>>
    ELSE [i \in 1..Len(checks) |-> [connector |-> Head(names), check |-> checks[i]]]
         \o product(Tail(names), checks)

\* line 26: the set of connectors of the requested names
Connectors(names) == {remove_strict_encrypt_suffix(names[i]) : i \in 1..Len(names)}

\* lines 26-27
Start ==
    /\ pc = "start"
    /\ todo' = product(IterateSet(Connectors(requested), NameOrder, hashSeed), ENABLED_CHECKS)
    /\ check_results' = <<>>
    /\ pc' = IF todo' = <<>> THEN "aggregate" ELSE "loop"
    /\ UNCHANGED <<environ, hashSeed, repo, requested, echoed, bound, verdict, runNo,
                   firstRun, last>>

\* CheckResult.__repr__ of an entry of check_results, read now: the connector is
\* the one its check is bound to now
Repr(entry, binding) ==
    IF entry.kind = "none" THEN <<"None">>
    ELSE (IF IsNone(binding[entry.check]) THEN <<"None">> ELSE Value(binding[entry.check]))
         \o <<"-", entry.status, "-", entry.check, ":">> \o entry.message

\* lines 28-31: one turn of the loop.  `evaluated` of an entry is the connector
\* the call was made on, which the CheckResult itself does not hold.
Evaluate ==
    /\ pc = "loop"
    /\ LET pair == Head(todo)
           r == Check_run(pair.check, repo[pair.connector], environ, hashSeed)
           entry == [evaluated |-> pair.connector, check |-> pair.check,
                     kind |-> r.outcome.kind, status |-> r.outcome.status,
                     message |-> r.outcome.message]
       IN  /\ bound' = [bound EXCEPT ![pair.check] = Some(pair.connector)]
           /\ IF r.outcome.kind = "raise"
              THEN /\ pc' = "done"
                   /\ verdict' = r.outcome.error
                   /\ UNCHANGED <<todo, check_results, echoed>>
              ELSE /\ check_results' = Append(check_results, entry)
                   /\ echoed' = Append(echoed, Repr(entry, bound'))
                   /\ todo' = Tail(todo)
                   /\ pc' = IF todo' = <<>> THEN "aggregate" ELSE "loop"
                   /\ UNCHANGED verdict
    /\ UNCHANGED <<environ, hashSeed, repo, requested, runNo, firstRun, last>>

\* lines 32-34
Aggregate ==
    /\ pc = "aggregate"
    /\ LET failed_checks == {i \in 1..Len(check_results) : check_results[i].status = FAILED}
       IN  verdict' = IF \E i \in 1..Len(check_results) : check_results[i].kind = "none"
                      THEN "AttributeError"
                      ELSE IF failed_checks # {} THEN "ClickException"
                      ELSE "success"
    /\ pc' = "done"
    /\ UNCHANGED <<environ, hashSeed, repo, requested, todo, check_results, echoed,
                   bound, runNo, firstRun, last>>

\* The connectors `run` is tried on
RunUniverse(technical_name) ==
    LET python == GoodConnector(technical_name, PYTHON)
        java == GoodConnector(technical_name, JAVA)
    IN  {python,
         java,
         [python EXCEPT !.icon = "missing"],
         [python EXCEPT !.metadata_file = FALSE, !.pyproject.version = Some(V("1", "2", "4"))],
         [java EXCEPT !.metadata = Some([GoodMetadata EXCEPT !.dockerImageTag = Some(<<"a", "b", "c">>)])],
         [python EXCEPT !.documentation.path = "missing"],
         [python EXCEPT !.metadata = Some([GoodMetadata EXCEPT !.license = None])],
         [java EXCEPT !.files = TwoHttpFiles]}

Requests ==
    {<<SourceA>>, <<SourceB>>, <<SourceA, SourceB>>,
     <<SourceA \o <<"-strict-encrypt">>, SourceA>>,
     <<SourceB \o <<"-secure">>, SourceA>>}

Init ==
    /\ environ \in Environments
    /\ hashSeed \in Seeds
    /\ \E a \in RunUniverse(SourceA), b \in RunUniverse(SourceB) :
          /\ b.language = PYTHON
          /\ repo = [n \in {SourceA, SourceB} |-> IF n = SourceA THEN a ELSE b]
    /\ requested \in Requests
    /\ pc = "start"
    /\ todo = <<>>
    /\ check_results = <<>>
    /\ echoed = <<>>
    /\ bound = [check \in Checks |-> None]
    /\ verdict = ""
    /\ runNo = 1
    /\ firstRun = NoFirstRun
    /\ last = NoCall

Next == Start \/ Evaluate \/ Aggregate

Spec == Init /\ [][Next]_vars

\* The (connector, check, status, message) results of the run in progress
ResultSet(results) ==
    {[connector |-> results[i].evaluated, check |-> results[i].check,
      kind |-> results[i].kind, status |-> results[i].status,
      message |-> results[i].message] : i \in 1..Len(results)}

\* `run` invoked once more on the same connectors: in the same process (the
\* registry and the hash seed are those of the first run), or in a new one
Rerun ==
    /\ pc = "done"
    /\ runNo = 1
    /\ firstRun' = [results |-> ResultSet(check_results), verdict |-> verdict]
    /\ runNo' = 2
    /\ pc' = "start"
    /\ todo' = <<>>
    /\ check_results' = <<>>
    /\ echoed' = <<>>
    /\ verdict' = ""
    /\ \/ UNCHANGED <<hashSeed, bound>>
       \/ /\ hashSeed' \in Seeds
          /\ bound' = [check \in Checks |-> None]
    /\ UNCHANGED <<environ, repo, requested, last>>

InitRerun == Init /\ environ = required_env_vars

NextRerun == Start \/ Evaluate \/ Aggregate \/ Rerun

SpecRerun == InitRerun /\ [][NextRerun]_vars

\* The pairs `run` is to evaluate
Pairs == Connectors(requested) \X Checks

LoopCompleted == pc \in {"aggregate", "done"} /\ todo = <<>>

-----------------------------------------------------------------------------
\* C3: `run` signals overall failure if and only if a pair yielded a FAILED
\* result: a run whose loop has evaluated every pair ends in success when no
\* result is FAILED, and in the failure ClickException when one is.
C3_FailsIffSomeResultFailed ==
    (pc = "done" /\ todo = <<>>) =>
        LET some_failed == \E i \in 1..Len(check_results) : check_results[i].status = FAILED
        IN  /\ some_failed => verdict = "ClickException"
            /\ ~some_failed => verdict = "success"

\* C4: every (connector, check) pair is evaluated exactly once and its result is
\* emitted, however many pairs returned FAILED; here for runs with the
\* environment variables set.
C4_EveryPairEvaluated ==
    (pc = "done" /\ required_env_vars \subseteq environ) =>
        /\ Len(check_results) = Cardinality(Pairs)
        /\ Len(echoed) = Cardinality(Pairs)
        /\ \A p \in Pairs :
              Cardinality({i \in 1..Len(check_results) :
                              /\ check_results[i].evaluated = p[1]
                              /\ check_results[i].check = p[2]}) = 1

\* C6: with DOCKERHUB_USERNAME or DOCKERHUB_PASSWORD missing from the environment,
\* the metadata validity check raises instead of returning a result: the run
\* produces and prints no result, ends with the ValueError at its first pair (the
\* check is the first of the registry) with every pair still to yield, and no
\* other check is ever called; and this whatever the connector's files are.
C6_MissingEnvAborts ==
    ~(required_env_vars \subseteq environ) =>
        /\ check_results = <<>>
        /\ echoed = <<>>
        /\ \A check \in Checks \ {"ValidateMetadata"} : IsNone(bound[check])
        /\ pc \in {"start", "loop", "done"}
        /\ pc = "done" =>
              /\ verdict = "ValueError"
              /\ Len(todo) = Cardinality(Pairs)
              /\ Head(todo).check = "ValidateMetadata"

\* C6 witness: a run aborted by the ValueError on a connector without
\* metadata.yaml, which the check would report as FAILED had it looked
C6_Witness ==
    /\ environ = {"DOCKERHUB_PASSWORD"}
    /\ pc = "done"
    /\ verdict = "ValueError"
    /\ ~repo[Head(todo).connector].metadata_file
    /\ ~IsNone(bound["ValidateMetadata"])

\* C7: every result still reports the connector that produced it: the connector
\* its check is bound to is the connector the call was made on.
C7_ResultKeepsItsConnector ==
    \A i \in 1..Len(check_results) :
        check_results[i].kind = "result" =>
            bound[check_results[i].check] = Some(check_results[i].evaluated)

\* C8: a second run on the same connectors yields the same set of (connector,
\* check, status, message) results as the first.
C8_SecondRunSameResults ==
    (runNo = 2 /\ pc = "done") => ResultSet(check_results) = firstRun.results

-----------------------------------------------------------------------------
(* The migration guide check on its own *)

MaxHeadings == 3

GuideVersions ==
    {V("1", "0", "0"), V("2", "0", "0"), V("3", "0", "0"), V("9", "0", "0"),
     <<"1", "0", ".", "0", ".", "0">>}

BreakingChangeKeys ==
    {{V("1", "0", "0"), V("2", "0", "0"), V("3", "0", "0")},
     {V("1", "0", "0"), V("2", "0", "0")},
     {V("2", "0", "0")},
     {V("9", "0", "0"), <<"1", "0", ".", "0", ".", "0">>}}

\* The lines a guide is made of after its title: headings, plain or indented, and text
GuideLines ==
    {UpgradingTo(v) : v \in GuideVersions}
    \cup {<<" ">> \o UpgradingTo(V("2", "0", "0")) \o <<" ">>, <<"text">>}

GuideBodies == UNION {[1..n -> GuideLines] : n \in 0..MaxHeadings}

MigrationUniverse ==
    {[GoodConnector(SourceA, PYTHON) EXCEPT
         !.metadata = Some([GoodMetadata EXCEPT !.breakingChanges = keys]),
         !.migration_guide = [path |-> "file", lines |-> <<MigrationGuideTitle>> \o body]] :
     keys \in BreakingChangeKeys, body \in GuideBodies}

InitMigration ==
    /\ InitCall(MigrationUniverse)
    /\ environ = required_env_vars
    /\ hashSeed = 0

NextMigration == CallCheck("CheckMigrationGuide")

SpecMigration == InitMigration /\ [][NextMigration]_vars

\* a > b as semantic versions
VersionGreater(a, b) ==
    LET x == SemverParse(a)
        y == SemverParse(b)
    IN  \/ x[1] > y[1]
        \/ x[1] = y[1] /\ x[2] > y[2]
        \/ x[1] = y[1] /\ x[2] = y[2] /\ x[3] > y[3]

\* The versions of S, the greatest first
RECURSIVE VersionDescending(_)
VersionDescending(S) ==
    IF S = {} THEN <<>>
    ELSE LET m == CHOOSE x \in S : \A y \in S \ {x} : VersionGreater(x, y)
         IN  <<m>> \o VersionDescending(S \ {m})

\* The versions of the guide's "## Upgrading to <version>" headings, in order
HeadingVersions(lines) ==
    LET IsHeading(line) == StartsWith(Strip(line), expected_version_header_start)
        headings == SelectSeq(lines, IsHeading)
    IN  [i \in 1..Len(headings) |->
            Drop(Strip(headings[i]), Len(expected_version_header_start))]

\* C9: with breaking changes and a guide that has the right title, the check
\* passes if and only if the versions of the guide's headings are the breaking
\* change versions in descending version order.
C9_PassesIffHeadingsDescendByVersion ==
    (/\ Called
     /\ last.check = "CheckMigrationGuide"
     /\ breaking_changes(CalledConnector) # {}
     /\ Exists(CalledConnector.migration_guide)
     /\ CalledConnector.migration_guide.lines # <<>>
     /\ CalledConnector.migration_guide.lines[1] = MigrationGuideTitle) =>
        /\ last.outcome.kind = "result"
        /\ last.outcome.status = PASSED <=>
              HeadingVersions(CalledConnector.migration_guide.lines)
                 = VersionDescending(breaking_changes(CalledConnector))

-----------------------------------------------------------------------------
(* The HTTPS check on its own *)

SchemaLine == <<"$schema", ":", " ", "http://", "json-schema.org", "/", "draft-07">>

SchemaAndHttpLine ==
    <<"http://", "json-schema.org", "/", "draft-07", " ", "http://", "example.com">>

HttpsLines ==
    {CleanLine,
     HttpLine,
     <<"HTTP://", "Example.com">>,
     <<"#", " ", "http://", "example.com">>,
     <<" ", " ", "#", " ", "http://", "example.com">>,
     <<"/", "/", " ", "http://", "example.com">>,
     <<"<!--", " ", "http://", "example.com">>,
     <<"x", " ", "=", " ", "http://", "example.com", " ", "#", " ", "ignore-https-check">>,
     SchemaLine,
     <<"#", " ", "http://", "json-schema.org", "/", "draft-07">>,
     SchemaAndHttpLine,
     <<"http://", "localhost", ":", "8080">>,
     <<"http://", "http://", "localhost", "json-schema.org">>}

HttpsPaths ==
    {[path |-> "main.py", dirs |-> CodeDirectory, name |-> <<"main", ".py">>],
     [path |-> "spec.json", dirs |-> CodeDirectory, name |-> <<"spec", ".json">>],
     [path |-> "README.md", dirs |-> CodeDirectory, name |-> <<"README", ".md">>],
     [path |-> "Client.java", dirs |-> CodeDirectory, name |-> <<"Client", ".java">>],
     [path |-> "config.yaml", dirs |-> CodeDirectory, name |-> <<"config", ".yaml">>],
     [path |-> "notes.txt", dirs |-> CodeDirectory, name |-> <<"notes", ".txt">>],
     [path |-> "ClientTest.java", dirs |-> CodeDirectory, name |-> <<"Client", "Test", ".java">>],
     [path |-> "unit_tests/test_main.py", dirs |-> CodeDirectory \o <<"unit_tests">>,
      name |-> <<"test_main", ".py">>]}

MaxLines == 2

\* The first path of the connector: a file whose last line is any line of
\* HttpsLines, after lines without a URL; read to its end or to the line before
\* the last
HttpsFiles ==
    {[path |-> p.path, dirs |-> p.dirs, name |-> p.name, is_file |-> TRUE,
      lines |-> lines, readable |-> readable] :
     p \in HttpsPaths,
     lines \in {[i \in 1..n |-> IF i < n THEN CleanLine ELSE l] :
                   n \in 1..MaxLines, l \in HttpsLines},
     readable \in 0..MaxLines}

\* The path that may follow it
HttpsSecondPaths ==
    {File("spec.json", CodeDirectory, <<"spec", ".json">>, <<HttpLine>>),
     File("README.md", CodeDirectory, <<"README", ".md">>, <<SchemaLine>>),
     [File("src", CodeDirectory, <<"src">>, <<>>) EXCEPT !.is_file = FALSE]}

HttpsUniverse ==
    {[GoodConnector(SourceA, PYTHON) EXCEPT !.files = files] :
     files \in {<<f>> : f \in {g \in HttpsFiles : g.readable \in {Len(g.lines), Len(g.lines) - 1}}}
               \cup {<<f, g>> : f \in {h \in HttpsFiles : h.readable = Len(h.lines)},
                                g \in {h \in HttpsSecondPaths : TRUE}}}

InitHttps ==
    /\ InitCall({c \in HttpsUniverse :
                    \A i, j \in 1..Len(c.files) : i # j => c.files[i].path # c.files[j].path})
    /\ environ = required_env_vars

NextHttps == CallCheck("CheckConnectorUsesHTTPSOnly")

SpecHttps == InitHttps /\ [][NextHttps]_vars


\* The file is one the check scans: a regular file, in no ignored directory, its
\* name matching no ignored pattern
Scanned(f) ==
    /\ f.is_file
    /\ \A i \in 1..Len(f.dirs) :
          f.dirs[i] \notin {".venv", "tests", "unit_tests", "integration_tests", "build",
                            "source-file", ".pytest_cache", "acceptance_tests_logs",
                            ".hypothesis", ".ruff_cache"}
    /\ f.path \notin {"ClientTest.java", "expected_records.json", "expected_records.jsonl"}
    /\ f.name[Len(f.name)] \notin {".jar", ".pyc", ".gz", ".svg"}

\* The line is a comment of the file's language: its first token after the
\* leading blanks opens a comment
CommentLine(line, f) ==
    \E i \in 1..Len(line) :
        /\ \A j \in 1..(i - 1) : line[j] = " "
        /\ \/ line[i] = "#" /\ f.name[Len(f.name)] \in {".py", ".yml", ".yaml"}
           \/ line[i] = "<!--" /\ f.name[Len(f.name)] = ".md"
           \/ /\ line[i] = "/" /\ i < Len(line) /\ line[i + 1] = "/"
              /\ f.name[Len(f.name)] = ".java"

\* The line carries the marker "# ignore-https-check"
MarkedLine(line) ==
    \E i \in 1..(Len(line) - 2) :
        line[i] = "#" /\ line[i + 1] = " " /\ line[i + 2] = "ignore-https-check"

\* What is left of the line, in lower case, once the occurrences of
\* http://json-schema.org and of http://localhost are deleted, one prefix after
\* the other in the order the set of prefixes iterates in
WithoutAllowedUrls(line, seed) ==
    LET lower == [i \in 1..Len(line) |->
                     IF line[i] = "HTTP://" THEN "http://" ELSE line[i]]
        schema == <<"http://", "json-schema.org">>
        localhost == <<"http://", "localhost">>
    IN  IF seed = 0 THEN Remove(Remove(lower, schema), localhost)
        ELSE Remove(Remove(lower, localhost), schema)

\* The line makes the check fail
OffendingLine(line, f, seed) ==
    /\ ~CommentLine(line, f)
    /\ ~MarkedLine(line)
    /\ \E i \in 1..Len(WithoutAllowedUrls(line, seed)) :
          WithoutAllowedUrls(line, seed)[i] = "http://"

\* The scanned files with an offending line among the lines read
OffendingFiles(connector, seed) ==
    {connector.files[k].path :
        k \in {n \in 1..Len(connector.files) :
                  /\ Scanned(connector.files[n])
                  /\ \E i \in 1..connector.files[n].readable :
                        OffendingLine(connector.files[n].lines[i], connector.files[n], seed)}}

\* C10 (amended): the check fails exactly when a scanned file has a line that is
\* no comment, carries no ignore marker and still holds "http://" once the allowed
\* prefixes are deleted from it; the message names exactly these files.  So
\* http://example.com on such a line fails, the same text after '#' in a .py file
\* does not, and a line whose only URL is http://json-schema.org/... does not.
C10_FailsIffOffendingLine ==
    (Called /\ last.check = "CheckConnectorUsesHTTPSOnly") =>
        LET offending == OffendingFiles(CalledConnector, hashSeed)
        IN  /\ last.outcome.kind = "result"
            /\ last.outcome.status = (IF offending = {} THEN PASSED ELSE FAILED)
            /\ offending # {} =>
                  /\ Range(Tail(last.outcome.message)) = offending
                  /\ Len(last.outcome.message) = 1 + Cardinality(offending)
            /\ \A k \in 1..Len(CalledConnector.files) :
                  LET f == CalledConnector.files[k]
                  IN  /\ (Scanned(f) /\ f.readable >= 1 /\ f.lines[1] = HttpLine)
                         => f.path \in offending
                      /\ (f.path = "main.py" /\ f.lines = <<<<"#", " ", "http://", "example.com">>>>
                          /\ Len(CalledConnector.files) = 1)
                         => offending = {}
                      /\ (f.lines = <<SchemaLine>> /\ Len(CalledConnector.files) = 1)
                         => offending = {}

\* C10 witness: the check failed on a file whose line holds both
\* http://json-schema.org/... and http://example.com, and named the file
C10_Witness ==
    /\ last.check = "CheckConnectorUsesHTTPSOnly"
    /\ last.outcome.status = FAILED
    /\ CalledConnector.files[1].lines = <<SchemaAndHttpLine>>
    /\ CalledConnector.files[1].path \in Range(last.outcome.message)

\* C10 as stated: a line containing http://json-schema.org/... never causes
\* failure, so a file all of whose lines contain it is never named.
C10_SchemaLineNeverFails ==
    (Called /\ last.check = "CheckConnectorUsesHTTPSOnly") =>
        \A k \in 1..Len(CalledConnector.files) :
            LET f == CalledConnector.files[k]
            IN  (\A i \in 1..Len(f.lines) : Contains(f.lines[i], <<"http://", "json-schema.org", "/">>))
                => f.path \notin Range(last.outcome.message)

-----------------------------------------------------------------------------
(* The license check on its own *)

MetadataLicenses == {"MIT", "mit", "ELv2", "elv2", "Apache-2.0", ""}

ManifestLicenses == {"MIT", "mit", "ELv2", "Apache-2.0", ""}

LicenseMetadata ==
    {None, Some(EmptyMetadata), Some([GoodMetadata EXCEPT !.license = None])}
    \cup {Some([GoodMetadata EXCEPT !.license = Some(l)]) : l \in MetadataLicenses}

LicensePyprojects ==
    {[GoodPyproject EXCEPT !.exists = FALSE],
     [GoodPyproject EXCEPT !.parses = FALSE],
     [GoodPyproject EXCEPT !.license = None]}
    \cup {[GoodPyproject EXCEPT !.license = Some(l)] : l \in ManifestLicenses}

LicenseUniverse ==
    {[GoodConnector(SourceA, language) EXCEPT !.metadata = m, !.pyproject = p] :
     language \in ALL_LANGUAGES, m \in LicenseMetadata, p \in LicensePyprojects}

InitLicense ==
    /\ InitCall(LicenseUniverse)
    /\ environ = required_env_vars
    /\ hashSeed = 0

NextLicense == CallCheck("CheckConnectorLicense")

SpecLicense == InitLicense /\ [][NextLicense]_vars

\* The license the metadata declares is MIT or ELv2, whatever the case of its letters
MetadataLicenseAllowed(connector) ==
    /\ ~IsNone(connector.metadata)
    /\ ~IsNone(Value(connector.metadata).license)
    /\ Value(Value(connector.metadata).license) \in {"MIT", "mit", "Mit", "ELv2", "elv2", "ELV2"}

\* The connector has a local manifest the license check reads
HasManifest(connector) ==
    connector.language \in {PYTHON, LOW_CODE} /\ connector.pyproject.exists

\* The manifest declares a license: the file is readable and tool.poetry.license
\* is a non-empty string
ManifestDeclaresLicense(connector) ==
    /\ connector.pyproject.parses
    /\ ~IsNone(connector.pyproject.license)
    /\ Value(connector.pyproject.license) # ""

LicensePassed == last.outcome.kind = "result" /\ last.outcome.status = PASSED

\* C11 (amended): the license check passes exactly when the metadata declares a
\* license of the allow-list {MIT, ELv2}, compared without regard to case, and,
\* for a Python or low-code connector that has a manifest, the manifest declares
\* a license equal to the metadata's exactly; a manifest without a license makes
\* the check fail with a message asking for it.  MIT with MIT passes; MIT with
\* Apache-2.0 fails with a message naming both.
C11_PassesIffManifestDeclaresSameLicense ==
    (Called /\ last.check = "CheckConnectorLicense") =>
        LET c == CalledConnector
        IN  /\ LicensePassed <=>
                  /\ MetadataLicenseAllowed(c)
                  /\ HasManifest(c) =>
                        /\ ManifestDeclaresLicense(c)
                        /\ Value(c.pyproject.license) = Value(Value(c.metadata).license)
            /\ (MetadataLicenseAllowed(c) /\ HasManifest(c) /\ c.pyproject.parses
                 /\ ~ManifestDeclaresLicense(c)) =>
                  last.outcome = CheckResult(FAILED,
                      <<"Connector is missing license in pyproject.toml. Please add it">>)
            /\ (MetadataLicenseAllowed(c) /\ Value(Value(c.metadata).license) = "MIT"
                 /\ HasManifest(c) /\ ManifestDeclaresLicense(c)) =>
                  /\ Value(c.pyproject.license) = "MIT" => LicensePassed
                  /\ Value(c.pyproject.license) = "Apache-2.0" =>
                        /\ last.outcome.kind = "result"
                        /\ last.outcome.status = FAILED
                        /\ {"MIT", "Apache-2.0"} \subseteq Range(last.outcome.message)

\* C11 witness: the check failed on a Python connector whose metadata declares MIT
\* and whose manifest declares no license
C11_Witness ==
    /\ last.check = "CheckConnectorLicense"
    /\ CalledConnector.language = PYTHON
    /\ MetadataLicenseAllowed(CalledConnector)
    /\ Value(CalledConnector.metadata).license = Some("MIT")
    /\ CalledConnector.pyproject.exists
    /\ CalledConnector.pyproject.parses
    /\ IsNone(CalledConnector.pyproject.license)
    /\ last.outcome.status = FAILED

\* C11 as stated: a manifest that declares no license imposes no further
\* condition, and one that declares a license must equal the metadata's; here for
\* connectors whose manifest, if there is one, is readable.
C11_ManifestWithoutLicenseImposesNothing ==
    (/\ Called
     /\ last.check = "CheckConnectorLicense"
     /\ CalledConnector.pyproject.exists => CalledConnector.pyproject.parses) =>
        LET c == CalledConnector
        IN  LicensePassed <=>
               /\ MetadataLicenseAllowed(c)
               /\ (HasManifest(c) /\ ManifestDeclaresLicense(c)) =>
                     Value(c.pyproject.license) = Value(Value(c.metadata).license)

-----------------------------------------------------------------------------
\* The version check compares the metadata's version with a manifest's: the
\* connector is a Python or low-code one with a pyproject.toml
ComparesManifestVersion(connector) ==
    connector.language \in {PYTHON, LOW_CODE} /\ connector.pyproject.exists

\* C12: for a connector whose metadata declares a dockerImageTag (and whose
\* manifest, if compared, declares a valid version), the version check returns
\* FAILED with an invalid-semver message when the tag is no semantic version,
\* FAILED when the manifest's version differs, and PASSED otherwise (no manifest
\* version to compare, or an equal one).
C12_VersionCheckResults ==
    (/\ Called
     /\ last.check = "CheckVersionFollowsSemver"
     /\ ~IsNone(CalledConnector.metadata)
     /\ ~IsNone(Value(CalledConnector.metadata).dockerImageTag)
     /\ ComparesManifestVersion(CalledConnector) =>
           /\ CalledConnector.pyproject.parses
           /\ ~IsNone(CalledConnector.pyproject.version)
           /\ SemverValid(Value(CalledConnector.pyproject.version))) =>
        LET c == CalledConnector
            tag == Value(Value(c.metadata).dockerImageTag)
        IN  /\ last.outcome.kind = "result"
            /\ IF ~SemverValid(tag)
               THEN /\ last.outcome.status = FAILED
                    /\ "Connector version does not follow Semantic Versioning:"
                          \in Range(last.outcome.message)
               ELSE IF ComparesManifestVersion(c) /\ Value(c.pyproject.version) # tag
               THEN last.outcome.status = FAILED
               ELSE last.outcome.status = PASSED

-----------------------------------------------------------------------------
(* The base image check on its own *)

\* consts.py
AIRBYTE_PYTHON_CONNECTOR_BASE_IMAGE_NAME == "docker.io/airbyte/python-connector-base"

\* The values of connectorBuildOptions.baseImage: the approved image, bare and
\* with a tag, other images, and the empty string
BaseImages ==
    {AIRBYTE_PYTHON_CONNECTOR_BASE_IMAGE_NAME,
     "docker.io/airbyte/python-connector-base:1.1.0",
     "docker.io/library/python:3.9",
     "docker.io/airbyte/java-connector-base:1.0.0",
     ""}

BaseImageMetadata ==
    {None, Some(EmptyMetadata), Some([GoodMetadata EXCEPT !.baseImage = None])}
    \cup {Some([GoodMetadata EXCEPT !.baseImage = Some(image)]) : image \in BaseImages}

BaseImageUniverse ==
    {[GoodConnector(SourceA, language) EXCEPT !.metadata = m, !.dockerfile = d] :
     language \in ALL_LANGUAGES, m \in BaseImageMetadata, d \in BOOLEAN}

InitBaseImage ==
    /\ InitCall(BaseImageUniverse)
    /\ hashSeed = 0

NextBaseImage == CallCheck("CheckConnectorUsesPythonBaseImage")

SpecBaseImage == InitBaseImage /\ [][NextBaseImage]_vars

\* The metadata's connectorBuildOptions.baseImage names the approved image, with
\* or without a tag
DeclaresApprovedBaseImage(connector) ==
    /\ ~IsNone(connector.metadata)
    /\ ~IsNone(Value(connector.metadata).baseImage)
    /\ Value(Value(connector.metadata).baseImage)
          \in {AIRBYTE_PYTHON_CONNECTOR_BASE_IMAGE_NAME,
               "docker.io/airbyte/python-connector-base:1.1.0"}

\* C13: for a Python or low-code connector the base image check passes only if
\* there is no Dockerfile and connectorBuildOptions.baseImage declares the
\* approved Python connector base image; with any other image it does not pass.
C13_PassesOnlyWithApprovedBaseImage ==
    (/\ Called
     /\ last.check = "CheckConnectorUsesPythonBaseImage"
     /\ CalledConnector.language \in {PYTHON, LOW_CODE}
     /\ last.outcome.kind = "result"
     /\ last.outcome.status = PASSED) =>
        /\ ~CalledConnector.dockerfile
        /\ DeclaresApprovedBaseImage(CalledConnector)

-----------------------------------------------------------------------------
(* The documentation structure check on its own *)

MaxBlankLines == 1

\* The line a documentation opens with, after its blank lines
MainHeaders ==
    {<<"#", " ", "Acme">>, <<"#", " ", "acme">>, <<"#", " ", "ACME">>,
     <<"#", " ", "Other">>, <<"#", "#", " ", "Acme">>, <<"Acme">>}

\* How a section header is written: as expected, in capitals, with a trailing
\* blank, or not at all
SectionLines(section) ==
    IF section = <<"#", "#", " ", "Changelog">>
    THEN {<<section>>, << <<"#", "#", " ", "CHANGELOG">> >>, <<section \o <<" ">>>>, <<>>}
    ELSE {<<section>>, <<>>}

RECURSIVE SectionBodies(_)
SectionBodies(sections) ==
    IF sections = <<>> THEN {<<>>}
    ELSE {first \o rest : first \in SectionLines(Head(sections)),
                          rest \in SectionBodies(Tail(sections))}

StructureDocuments ==
    {[path |-> "file",
      lines |-> [i \in 1..blank |-> <<>>] \o <<header>> \o body] :
     blank \in 0..MaxBlankLines, header \in MainHeaders,
     body \in SectionBodies(expected_sections)}

StructureMetadata ==
    {None, Some(GoodMetadata),
     Some([GoodMetadata EXCEPT !.name = Some(<<"ACME">>)]),
     Some([GoodMetadata EXCEPT !.name = Some(<<"Other">>)])}

StructureUniverse ==
    {[GoodConnector(SourceA, PYTHON) EXCEPT !.metadata = m, !.documentation = d] :
     m \in StructureMetadata, d \in StructureDocuments}

InitStructure ==
    /\ InitCall(StructureUniverse)
    /\ environ = required_env_vars
    /\ hashSeed = 0

NextStructure == CallCheck("CheckDocumentationStructure")

SpecStructure == InitStructure /\ [][NextStructure]_vars

\* The first line of the documentation that is not blank
FirstNonBlankLine(lines) ==
    lines[CHOOSE i \in 1..Len(lines) :
             /\ Strip(lines[i]) # <<>>
             /\ \A j \in 1..(i - 1) : Strip(lines[j]) = <<>>]

\* Rule (a): the main header is `# <metadata name>`, letters compared without
\* regard to case, or starts with `# ` when there is no metadata
MainHeaderRuleHolds(connector) ==
    LET first == FirstNonBlankLine(connector.documentation.lines)
    IN  IF IsNone(connector.metadata)
        THEN Len(first) >= 2 /\ first[1] = "#" /\ first[2] = " "
        ELSE Lower(first) = <<"#", " ">> \o Lower(Value(Value(connector.metadata).name))

\* Rule (b): the required sections no line of the documentation is the header of
MissingSections(connector) ==
    {k \in 1..Len(expected_sections) :
        \A i \in 1..Len(connector.documentation.lines) :
            Lower(connector.documentation.lines[i]) # Lower(expected_sections[k])}

\* How many times the string occurs among the parts of the message
Occurrences(message, part) == Cardinality({i \in 1..Len(message) : message[i] = part})

\* C14: the documentation structure check passes if and only if the first
\* non-blank line is the main header rule (a) asks for and each of the five
\* required section headers is a line of the documentation; when it fails, the
\* message holds the error of each violated rule once.
C14_PassesIffStructureRulesHold ==
    (Called /\ last.check = "CheckDocumentationStructure") =>
        LET c == CalledConnector
            missing == MissingSections(c)
        IN  /\ last.outcome.kind = "result"
            /\ last.outcome.status = PASSED <=> (MainHeaderRuleHolds(c) /\ missing = {})
            /\ last.outcome.status = FAILED =>
                  /\ Occurrences(last.outcome.message, main_header_error[1])
                        = (IF MainHeaderRuleHolds(c) THEN 0 ELSE 1)
                  /\ Occurrences(last.outcome.message,
                                 "Connector documentation is missing a section:")
                        = Cardinality(missing)
                  /\ \A k \in missing :
                        Contains(last.outcome.message,
                                 <<"Connector documentation is missing a section:">>
                                 \o Drop(expected_sections[k], 3))

-----------------------------------------------------------------------------
(* The changelog entry check on its own *)

MaxDocLines == 3

\* The lines of a documentation: changelog headings, without and with a version
\* on them, table rows of versions, and text
ChangelogLines ==
    {<<"#", "#", " ", "Changelog">>,
     <<"#", "#", " ", "CHANGELOG">>,
     <<"#", " ", "Changelog", " ">> \o V("1", "2", "3"),
     <<"|", " ">> \o V("1", "2", "3") \o <<" ", "|">>,
     <<"|", " ">> \o V("1", "2", "4") \o <<" ", "|">>,
     <<"|", " ", "1">> \o V("1", "2", "3") \o <<" ", "|">>,
     <<"text">>}

ChangelogDocuments ==
    {[path |-> "missing", lines |-> <<>>]}
    \cup {[path |-> "file", lines |-> lines] :
             lines \in UNION {[1..n -> ChangelogLines] : n \in 0..MaxDocLines}}

ChangelogUniverse ==
    {[GoodConnector(SourceA, PYTHON) EXCEPT !.documentation = d] : d \in ChangelogDocuments}

InitChangelog ==
    /\ InitCall(ChangelogUniverse)
    /\ environ = required_env_vars
    /\ hashSeed = 0

NextChangelog == CallCheck("CheckChangelogEntry")

SpecChangelog == InitChangelog /\ [][NextChangelog]_vars

\* The line holds "# changelog", in whatever case
ChangelogHeading(line) ==
    \E k \in 1..(Len(line) - 2) :
        /\ line[k] = "#"
        /\ line[k + 1] = " "
        /\ line[k + 2] \in {"changelog", "Changelog", "CHANGELOG"}

\* The version occurs in a line after a line that holds the changelog heading
EntryAfterHeading(lines, version) ==
    \E i \in 1..Len(lines) :
        /\ ChangelogHeading(lines[i])
        /\ \E j \in (i + 1)..Len(lines) : Contains(lines[j], version)

\* C15: for a connector whose documentation file exists, the changelog entry
\* check passes if and only if the connector's version occurs in a line located
\* after a line that holds "# changelog"; a version only before the heading, or
\* only on the heading line itself, is no entry.
C15_PassesIffEntryAfterHeading ==
    (/\ Called
     /\ last.check = "CheckChangelogEntry"
     /\ Exists(CalledConnector.documentation)) =>
        /\ last.outcome.kind = "result"
        /\ last.outcome.status = PASSED <=>
              EntryAfterHeading(CalledConnector.documentation.lines, CalledConnector.version)

-----------------------------------------------------------------------------
(* `run` on names with and without the suffixes *)

NameRequests ==
    {<<NameOrder[i]>> : i \in 1..Len(NameOrder)}
    \cup {<<NameOrder[i], second>> :
             i \in 1..Len(NameOrder),
             second \in {SourceA, SourceA \o <<"-secure">>, <<"source", "-db">>}}

InitNames ==
    /\ environ \in {{}, required_env_vars}
    /\ hashSeed \in Seeds
    /\ repo = [n \in Range(NameOrder) |-> GoodConnector(n, PYTHON)]
    /\ requested \in NameRequests
    /\ pc = "start"
    /\ todo = <<>>
    /\ check_results = <<>>
    /\ echoed = <<>>
    /\ bound = [check \in Checks |-> None]
    /\ verdict = ""
    /\ runNo = 1
    /\ firstRun = NoFirstRun
    /\ last = NoCall

NextNames == Start \/ Evaluate \/ Aggregate

SpecNames == InitNames /\ [][NextNames]_vars

\* The name without its one trailing `-strict-encrypt` or `-secure`, every other
\* part of it kept
WithoutTrailingSuffix(name) ==
    IF name[Len(name)] \in {"-strict-encrypt", "-secure"}
    THEN SubSeq(name, 1, Len(name) - 1)
    ELSE name

\* How many times `run` has the pair on its list or in its results
TimesScheduled(name, check) ==
    Cardinality({i \in 1..Len(todo) : todo[i].connector = name /\ todo[i].check = check})
    + Cardinality({i \in 1..Len(check_results) :
                      check_results[i].evaluated = name /\ check_results[i].check = check})

\* C16: each requested name is normalised by removing its one trailing
\* `-strict-encrypt` or `-secure`, the rest of the name kept (a name ending in
\* neither is unchanged), and `run` evaluates each check once on each normalised
\* name, names that normalise to the same name together.
C16_OneTrailingSuffixRemoved ==
    pc # "start" =>
        LET expected == {WithoutTrailingSuffix(requested[i]) : i \in 1..Len(requested)}
        IN  \A name \in Range(NameOrder), check \in Checks :
                TimesScheduled(name, check) = (IF name \in expected THEN 1 ELSE 0)

====
